---- MODULE Spec2Model ----
(***************************************************************************)
(* Weighted semaphore with Resize (src/semaphore.go).                      *)
(*                                                                         *)
(* Every critical section of the code (s.mu.Lock() ... s.mu.Unlock()) is   *)
(* one action: the mutex makes it atomic.  The blocking select of Acquire  *)
(* sits between two critical sections and is modelled by the actions       *)
(* AcquireCtxDone / AcquireReady that pick one of its ready cases.         *)
(*                                                                         *)
(* Spec and FairSpec take each critical section as one step.  MuSpec and   *)
(* DiagSpec make s.mu explicit: calling, locking (with the critical        *)
(* section) and unlocking are steps of their own, and Current, Size and    *)
(* Waiters, which do not lock, run in between.                             *)
(*                                                                         *)
(* A call of Acquire or TryAcquire is a member c of Calls; calls start in   *)
(* the order of their numbers.  The ready channel made by call c is named  *)
(* c.                                                                      *)
(* A list element is a record [n, ready, elem]: n and ready are the fields *)
(* of the waiter struct stored in it, elem names the *list.Element.  The   *)
(* element pushed by Acquire for call c is elem = c (the caller keeps that *)
(* handle); an element pushed by Resize is a new element nobody holds a    *)
(* handle to, elem = 0.                                                    *)
(***************************************************************************)
EXTENDS Integers, Sequences, FiniteSets, TLC

\* Bounds of the model: the number of calls of Acquire and TryAcquire, and
\* the largest size; weights range over 1..MaxSize.
MaxCalls == 3
MaxSize == 2
\* The number of calls of Acquire and TryAcquire in the mutex-level
\* specifications MuSpec and DiagSpec.
MuCalls == 2

Calls == 1..MaxCalls
Weights == 1..MaxSize
Sizes == 0..MaxSize
\* Arguments tried for Resize: every size, and -1 (the fatal one).
ResizeArgs == {0 - 1} \cup Sizes

VARIABLES
    size,               \* Weighted.size
    cur,                \* Weighted.cur
    waiters,            \* Weighted.waiters
    impossibleWaiters,  \* Weighted.impossibleWaiters
    st,                 \* st[c]: where the call in slot c is
    wn,                 \* wn[c]: the weight n the blocked call c asked for
    ctxDone,            \* ctxDone[c]: ctx.Done() of the blocked call c is closed
    closes,             \* closes[c]: how many times close(ready) ran on channel c
    waiterList,         \* waiterList[c]: the list the local waiterList of call c points to
    held,               \* held[c]: weight call c acquired and has not released
    ahead,              \* ahead[c]: channels in waiters ever since request c arrived (ghost)
    last,               \* the operation that returned (or blocked) last, and its result
    mu,                 \* Weighted.mu: the goroutine that holds it, NoOne if it is free
    pc,                 \* pc[p]: where goroutine p is with respect to s.mu
    partial             \* Waiters(): the value of s.waiters.Len() it has read, -1 outside

vars == <<size, cur, waiters, impossibleWaiters, st, wn, ctxDone, closes,
          waiterList, held, ahead, last, mu, pc, partial>>

\* The variables of the mutex-level specification MuSpec.
muvars == <<mu, pc, partial>>

\* Goroutines: the goroutine of call c is c; Admin calls Resize and the
\* Release of weight it does not hold.  NoOne: the value of mu when unlocked.
Admin == 0
NoOne == 0 - 1
Procs == {Admin} \cup Calls

\* Where a goroutine is with respect to s.mu.
\*   idle          outside the semaphore's functions
\*   Acquire, TryAcquire, Release, Resize
\*                 has called that function and is at its s.mu.Lock()
\*   unlock        holds s.mu, has run the critical section, is at s.mu.Unlock()
\*   select        Acquire after the Unlock of line 59: in the select, or at
\*                 the s.mu.Lock() of line 64 (st = "canceling")
PcStates == {"idle", "Acquire", "TryAcquire", "Release", "Resize", "unlock", "select"}

\* The states of a call.
\*   new        not started
\*   waiting    Acquire, blocked in the select (lines 61-78)
\*   canceling  Acquire took the ctx.Done() case and is about to lock (line 64)
\*   holding    Acquire returned nil / TryAcquire returned true, not all released
\*   canceled   Acquire returned ctx.Err()
\*   done       TryAcquire returned false, or the holder released all it held
CallStates == {"new", "waiting", "canceling", "holding", "canceled", "done"}

Op(op, ret) == [op |-> op, ret |-> ret]

\* A panic (lines 99, 136) ends the program.
halted == last.ret = "panic"

\* ---------------------------------------------------------------- helpers

\* The ready channels of the elements of list q.
Chans(q) == {q[i].ready : i \in 1..Len(q)}

\* The channels of all queued elements.
Queued == Chans(waiters) \cup Chans(impossibleWaiters)

\* waiter{n: n, ready: ready} pushed by Acquire of call c (lines 56-58).
NewWaiter(c, k) == [n |-> k, ready |-> c, elem |-> c]

\* The value w of an element pushed again by Resize: a new element.
Copy(w) == [n |-> w.n, ready |-> w.ready, elem |-> 0]

CopyAll(q) == [i \in 1..Len(q) |-> Copy(q[i])]

\* list.Remove(e) on list q: removes e if e is an element of q (e.list == l),
\* and does nothing otherwise.
ListRemove(q, e) == SelectSeq(q, LAMBDA x : x.elem # e)

\* close(w.ready) for every channel of the sequence cs.
CloseAll(cs) == [c \in Calls |-> closes[c] + Cardinality({i \in 1..Len(cs) : cs[i] = c})]

\* The grant loop of Release, going on past a waiter that does not fit.
RECURSIVE ReleaseLoop_SkipAhead(_, _, _)
ReleaseLoop_SkipAhead(q, c, sz) ==
    IF q = <<>> THEN [waiters |-> q, cur |-> c, closed |-> <<>>]
    ELSE IF sz - c < Head(q).n
         THEN LET r == ReleaseLoop_SkipAhead(Tail(q), c, sz)
              IN  [r EXCEPT !.waiters = <<Head(q)>> \o @]
    ELSE LET r == ReleaseLoop_SkipAhead(Tail(q), c + Head(q).n, sz)
         IN  [r EXCEPT !.closed = <<Head(q).ready>> \o @]

\* The grant loop of Release (lines 101-126): while the front waiter fits,
\* grant it.  Result: the list left, the new cur, the channels closed (in order).
RECURSIVE ReleaseLoop(_, _, _)
ReleaseLoop(q, c, sz) ==
    IF q = <<>> THEN [waiters |-> q, cur |-> c, closed |-> <<>>]
    ELSE IF sz - c < Head(q).n THEN [waiters |-> q, cur |-> c, closed |-> <<>>]
    ELSE LET r == ReleaseLoop(Tail(q), c + Head(q).n, sz)
         IN  [r EXCEPT !.closed = <<Head(q).ready>> \o @]

\* The grant loop of Resize, stopping at a waiter that takes all that is free.
RECURSIVE ResizeLoop_Strict(_, _, _)
ResizeLoop_Strict(q, c, sz) ==
    IF q = <<>> THEN [waiters |-> q, cur |-> c, closed |-> <<>>]
    ELSE IF sz - c <= Head(q).n THEN [waiters |-> q, cur |-> c, closed |-> <<>>]
    ELSE LET r == ResizeLoop_Strict(Tail(q), c + Head(q).n, sz)
         IN  [r EXCEPT !.closed = <<Head(q).ready>> \o @]

\* The grant loop of Resize, closing the channel without adding w.n to cur.
RECURSIVE ResizeLoop_NoCharge(_, _, _)
ResizeLoop_NoCharge(q, c, sz) ==
    IF q = <<>> THEN [waiters |-> q, cur |-> c, closed |-> <<>>]
    ELSE IF sz - c < Head(q).n THEN [waiters |-> q, cur |-> c, closed |-> <<>>]
    ELSE LET r == ResizeLoop_NoCharge(Tail(q), c, sz)
         IN  [r EXCEPT !.closed = <<Head(q).ready>> \o @]

\* The grant loop of Resize (lines 180-199; the same loop, written again).
RECURSIVE ResizeLoop(_, _, _)
ResizeLoop(q, c, sz) ==
    IF q = <<>> THEN [waiters |-> q, cur |-> c, closed |-> <<>>]
    ELSE IF sz - c < Head(q).n THEN [waiters |-> q, cur |-> c, closed |-> <<>>]
    ELSE LET r == ResizeLoop(Tail(q), c + Head(q).n, sz)
         IN  [r EXCEPT !.closed = <<Head(q).ready>> \o @]

\* First loop of Resize, leaving a waiter with w.n = s.size impossible.
AddPossible_Strict(ws, imp, sz) ==
    [waiters |-> ws \o CopyAll(SelectSeq(imp, LAMBDA w : ~(sz <= w.n))),
     impossibleWaiters |-> SelectSeq(imp, LAMBDA w : sz <= w.n)]

\* First loop of Resize, pushing the now possible waiters to the front of waiters.
AddPossible_Front(ws, imp, sz) ==
    [waiters |-> CopyAll(SelectSeq(imp, LAMBDA w : ~(sz < w.n))) \o ws,
     impossibleWaiters |-> SelectSeq(imp, LAMBDA w : sz < w.n)]

\* First loop of Resize (lines 139-158): every impossible waiter with
\* s.size < w.n stays; the others are pushed to the back of waiters, in order,
\* and removed from impossibleWaiters.
AddPossible(ws, imp, sz) ==
    [waiters |-> ws \o CopyAll(SelectSeq(imp, LAMBDA w : ~(sz < w.n))),
     impossibleWaiters |-> SelectSeq(imp, LAMBDA w : sz < w.n)]

\* Second loop of Resize, leaving every waiter where it is.
AddImpossible_None(ws, imp, sz) ==
    [waiters |-> ws, impossibleWaiters |-> imp]

\* Second loop of Resize (lines 160-178): every waiter with s.size >= w.n
\* stays; the others are pushed to the back of impossibleWaiters, in order,
\* and removed from waiters.
AddImpossible(ws, imp, sz) ==
    [waiters |-> SelectSeq(ws, LAMBDA w : sz >= w.n),
     impossibleWaiters |-> imp \o CopyAll(SelectSeq(ws, LAMBDA w : ~(sz >= w.n)))]

\* ---------------------------------------------------------------- Init

\* NewWeighted(n): size n, everything else zero.
Init ==
    /\ size \in Sizes
    /\ cur = 0
    /\ waiters = <<>>
    /\ impossibleWaiters = <<>>
    /\ st = [c \in Calls |-> "new"]
    /\ wn = [c \in Calls |-> 0]
    /\ ctxDone = [c \in Calls |-> FALSE]
    /\ closes = [c \in Calls |-> 0]
    /\ waiterList = [c \in Calls |-> "none"]
    /\ held = [c \in Calls |-> 0]
    /\ ahead = [c \in Calls |-> {}]
    /\ last = Op("NewWeighted", "none")
    /\ mu = NoOne
    /\ pc = [p \in Procs |-> "idle"]
    /\ partial = 0 - 1

\* Call c is the next call to start.
IsNext(c) == st[c] = "new" /\ \A d \in Calls : d < c => st[d] # "new"

\* The condition of the fast path of Acquire (line 43), off by one.
AcquireFast_OffByOne(k) == size - cur >= k - 1 /\ Len(waiters) = 0

\* The condition of the fast path of Acquire (line 43), not looking at the queue.
AcquireFast_IgnoresQueue(k) == size - cur >= k

\* The condition of the fast path of Acquire (line 43).
AcquireFast(k) == size - cur >= k /\ Len(waiters) = 0

\* The condition of TryAcquire (line 85), not looking at the queue.
TryAcquireSuccess_IgnoresQueue(k) == size - cur >= k

\* The condition of TryAcquire (line 85): success.
TryAcquireSuccess(k) == size - cur >= k /\ Len(waiters) = 0

\* The condition of line 51, sending a request of exactly s.size to the
\* impossible list too.
AcquireImpossible_AtLeast(k) == k >= size

\* The condition of line 51: the request cannot be granted at this size.
AcquireImpossible(k) == k > size

\* Ghost: of the channels ahead of a queued request, those that stay in waiters;
\* the request that arrives in this step (new, 0 if none) has all of waiters ahead.
AheadNext(new) ==
    [c \in Calls |->
        IF c \in Chans(waiters') \cup Chans(impossibleWaiters')
        THEN (IF c = new THEN Chans(waiters) ELSE ahead[c]) \cap Chans(waiters')
        ELSE {}]

\* Acquire returns: its locals (n, ctx, ready, waiterList) are gone.
Return(c, state) ==
    /\ st' = [st EXCEPT ![c] = state]
    /\ wn' = [wn EXCEPT ![c] = 0]
    /\ waiterList' = [waiterList EXCEPT ![c] = "none"]
    /\ ctxDone' = [ctxDone EXCEPT ![c] = FALSE]
    /\ closes' = [closes EXCEPT ![c] = 0]

\* ---------------------------------------------------------------- Acquire

\* Acquire(ctx, k), lines 42-59: the first critical section.  d: ctx is
\* already done when the call is made.
Acquire(c, k, d) ==
    /\ ~halted
    /\ IsNext(c)
    /\ IF AcquireFast(k)
       THEN \* the fast path does not look at ctx
            /\ cur' = cur + k
            /\ st' = [st EXCEPT ![c] = "holding"]
            /\ held' = [held EXCEPT ![c] = k]
            /\ last' = Op("Acquire", "nil")
            /\ UNCHANGED <<waiters, impossibleWaiters, waiterList, ctxDone, wn, closes>>
       ELSE /\ IF AcquireImpossible(k)
               THEN /\ impossibleWaiters' = Append(impossibleWaiters, NewWaiter(c, k))
                    /\ waiterList' = [waiterList EXCEPT ![c] = "impossibleWaiters"]
                    /\ UNCHANGED waiters
               ELSE /\ waiters' = Append(waiters, NewWaiter(c, k))
                    /\ waiterList' = [waiterList EXCEPT ![c] = "waiters"]
                    /\ UNCHANGED impossibleWaiters
            /\ st' = [st EXCEPT ![c] = "waiting"]
            /\ wn' = [wn EXCEPT ![c] = k]
            /\ ctxDone' = [ctxDone EXCEPT ![c] = d]
            /\ closes' = [closes EXCEPT ![c] = 0]
            /\ last' = Op("Acquire", "blocked")
            /\ UNCHANGED <<cur, held>>
    /\ ahead' = AheadNext(c)
    /\ UNCHANGED size

\* The caller's context is canceled (or its deadline passes) while the call waits.
Cancel(c) ==
    /\ ~halted
    /\ st[c] = "waiting"
    /\ ~ctxDone[c]
    /\ ctxDone' = [ctxDone EXCEPT ![c] = TRUE]
    /\ UNCHANGED <<size, cur, waiters, impossibleWaiters, st, wn, closes,
                   waiterList, held, ahead, last>>

\* The select takes case <-ctx.Done() (lines 62-63).
AcquireCtxDone(c) ==
    /\ ~halted
    /\ st[c] = "waiting"
    /\ ctxDone[c]
    /\ st' = [st EXCEPT ![c] = "canceling"]
    /\ UNCHANGED <<size, cur, waiters, impossibleWaiters, wn, ctxDone, closes,
                   waiterList, held, ahead, last>>

\* The select takes case <-ready (lines 76-77): return nil.
AcquireReady(c) ==
    /\ ~halted
    /\ st[c] = "waiting"
    /\ closes[c] > 0
    /\ Return(c, "holding")
    /\ held' = [held EXCEPT ![c] = wn[c]]
    /\ last' = Op("Acquire", "nil")
    /\ UNCHANGED <<size, cur, waiters, impossibleWaiters, ahead>>

\* The second critical section of a canceled Acquire (lines 64-74).
AcquireCanceled(c) ==
    /\ ~halted
    /\ st[c] = "canceling"
    /\ IF closes[c] > 0
       THEN \* case <-ready: err = nil
            /\ Return(c, "holding")
            /\ held' = [held EXCEPT ![c] = wn[c]]
            /\ last' = Op("Acquire", "nil")
            /\ UNCHANGED <<waiters, impossibleWaiters>>
       ELSE \* default: waiterList.Remove(elem); return ctx.Err()
            /\ Return(c, "canceled")
            /\ IF waiterList[c] = "waiters"
               THEN /\ waiters' = ListRemove(waiters, c)
                    /\ UNCHANGED impossibleWaiters
               ELSE /\ impossibleWaiters' = ListRemove(impossibleWaiters, c)
                    /\ UNCHANGED waiters
            /\ last' = Op("Acquire", "err")
            /\ UNCHANGED held
    /\ ahead' = AheadNext(0)
    /\ UNCHANGED <<size, cur>>

\* ---------------------------------------------------------------- TryAcquire

\* TryAcquire(k), lines 83-91.
TryAcquire(c, k) ==
    /\ ~halted
    /\ IsNext(c)
    /\ IF TryAcquireSuccess(k)
       THEN /\ cur' = cur + k
            /\ st' = [st EXCEPT ![c] = "holding"]
            /\ held' = [held EXCEPT ![c] = k]
            /\ last' = Op("TryAcquire", "true")
       ELSE /\ st' = [st EXCEPT ![c] = "done"]
            /\ last' = Op("TryAcquire", "false")
            /\ UNCHANGED <<cur, held>>
    /\ UNCHANGED <<size, waiters, impossibleWaiters, wn, ctxDone, closes, waiterList,
                   ahead>>

\* ---------------------------------------------------------------- Release

\* Release(k) with the check of line 97 written s.cur <= 0.
Release_PanicAtZero(k) ==
    IF cur - k <= 0
    THEN /\ cur' = cur - k
         /\ last' = Op("Release", "panic")
         /\ UNCHANGED <<waiters, closes>>
    ELSE LET r == ReleaseLoop(waiters, cur - k, size)
         IN  /\ cur' = r.cur
             /\ waiters' = r.waiters
             /\ closes' = CloseAll(r.closed)
             /\ last' = Op("Release", "none")

\* Release(k), lines 94-128, on the semaphore's fields.
Release(k) ==
    IF cur - k < 0
    THEN \* s.cur -= n is done before the check; then panic
         /\ cur' = cur - k
         /\ last' = Op("Release", "panic")
         /\ UNCHANGED <<waiters, closes>>
    ELSE LET r == ReleaseLoop(waiters, cur - k, size)
         IN  /\ cur' = r.cur
             /\ waiters' = r.waiters
             /\ closes' = CloseAll(r.closed)
             /\ last' = Op("Release", "none")

\* A holder releases k of the weight it holds.
ReleaseHeld(c, k) ==
    /\ ~halted
    /\ st[c] = "holding"
    /\ k <= held[c]
    /\ Release(k)
    /\ held' = [held EXCEPT ![c] = @ - k]
    /\ st' = [st EXCEPT ![c] = IF held[c] = k THEN "done" ELSE "holding"]
    /\ UNCHANGED <<size, impossibleWaiters, wn, ctxDone, waiterList>>
    /\ ahead' = AheadNext(0)

\* Release(k) of more than is in use (misuse).
OverRelease(k) ==
    /\ ~halted
    /\ k > cur
    /\ Release(k)
    /\ UNCHANGED <<size, impossibleWaiters, st, wn, ctxDone, waiterList, held, ahead>>

\* ---------------------------------------------------------------- Waiters

\* Waiters(), line 218: the value it returns in this state.
Waiters == Len(waiters) + Len(impossibleWaiters)

\* ---------------------------------------------------------------- Resize

\* Resize(k), lines 131-201.
Resize(k) ==
    /\ ~halted
    /\ size' = k
    /\ IF k < 0
       THEN /\ last' = Op("Resize", "panic")
            /\ UNCHANGED <<cur, waiters, impossibleWaiters, closes, ahead>>
       ELSE LET l1 == AddPossible(waiters, impossibleWaiters, k)
                l2 == AddImpossible(l1.waiters, l1.impossibleWaiters, k)
                r == ResizeLoop(l2.waiters, cur, k)
            IN  /\ cur' = r.cur
                /\ waiters' = r.waiters
                /\ impossibleWaiters' = l2.impossibleWaiters
                /\ closes' = CloseAll(r.closed)
                /\ ahead' = AheadNext(0)
                /\ last' = Op("Resize", "none")
    /\ UNCHANGED <<st, wn, ctxDone, waiterList, held>>

\* ---------------------------------------------------------------- Spec

\* In Spec every critical section is one step (s.mu makes it atomic), so the
\* mutex is free in every state.
Next ==
    \/ \E c \in Calls, k \in Weights, d \in BOOLEAN : Acquire(c, k, d) /\ UNCHANGED muvars
    \/ \E c \in Calls : Cancel(c) /\ UNCHANGED muvars
    \/ \E c \in Calls : AcquireCtxDone(c) /\ UNCHANGED muvars
    \/ \E c \in Calls : AcquireReady(c) /\ UNCHANGED muvars
    \/ \E c \in Calls : AcquireCanceled(c) /\ UNCHANGED muvars
    \/ \E c \in Calls, k \in Weights : TryAcquire(c, k) /\ UNCHANGED muvars
    \/ \E c \in Calls, k \in Weights : ReleaseHeld(c, k) /\ UNCHANGED muvars
    \/ \E k \in Weights : OverRelease(k) /\ UNCHANGED muvars
    \/ \E k \in ResizeArgs : Resize(k) /\ UNCHANGED muvars

Spec == Init /\ [][Next]_vars

\* Every started call that may still get or use weight makes progress: a
\* goroutine whose channel is closed or whose ctx is done runs on, the mutex
\* is granted, and a holder releases what it holds.
Progress(c) ==
    /\ \/ AcquireCtxDone(c)
       \/ AcquireReady(c)
       \/ AcquireCanceled(c)
       \/ \E k \in Weights : ReleaseHeld(c, k)
    /\ UNCHANGED muvars

FairSpec == Spec /\ \A c \in Calls : WF_vars(Progress(c))

\* ---------------------------------------------------------------- MuSpec
\*
\* The same program with s.mu explicit.  A function that locks is three
\* steps of its goroutine: the call (it is now at s.mu.Lock()), the Lock
\* together with the critical section (the actions above), and the Unlock.
\* Current, Size and Waiters do not lock (lines 205-219): each load of a field
\* is a step of its own, taken whoever holds s.mu.

\* Goroutine p calls function f and arrives at its s.mu.Lock()
\* (lines 42, 84, 95, 132).
Call(p, f) ==
    /\ ~halted
    /\ pc[p] = "idle"
    /\ IF p = Admin
       THEN f \in {"Release", "Resize"}
       ELSE \/ f \in {"Acquire", "TryAcquire"} /\ IsNext(p) /\ p <= MuCalls
            \/ f = "Release" /\ st[p] = "holding"
    /\ pc' = [pc EXCEPT ![p] = f]
    /\ UNCHANGED <<size, cur, waiters, impossibleWaiters, st, wn, ctxDone, closes,
                   waiterList, held, ahead, last, mu, partial>>

\* s.mu.Lock() returns in goroutine p (the mutex is free), and p runs the
\* critical section that follows, up to its s.mu.Unlock().
Lock(p) ==
    /\ mu = NoOne
    /\ \/ pc[p] = "Acquire" /\ \E k \in Weights, d \in BOOLEAN : Acquire(p, k, d)
       \/ pc[p] = "TryAcquire" /\ \E k \in Weights : TryAcquire(p, k)
       \/ pc[p] = "Release" /\ p # Admin /\ \E k \in Weights : ReleaseHeld(p, k)
       \/ pc[p] = "Release" /\ p = Admin /\ OverRelease(cur + 1)
       \/ pc[p] = "Resize" /\ \E k \in ResizeArgs : Resize(k)
       \/ pc[p] = "select" /\ AcquireCanceled(p)
    /\ mu' = p
    /\ pc' = [pc EXCEPT ![p] = "unlock"]
    /\ UNCHANGED partial

\* s.mu.Unlock(), never run by an Acquire that goes on to the select.
Unlock_NotBeforeSelect(p) ==
    /\ mu = p
    /\ pc[p] = "unlock"
    /\ mu' = IF p # Admin /\ st[p] = "waiting" THEN mu ELSE NoOne
    /\ pc' = [pc EXCEPT ![p] = IF p # Admin /\ st[p] = "waiting" THEN "select" ELSE "idle"]
    /\ UNCHANGED <<size, cur, waiters, impossibleWaiters, st, wn, ctxDone, closes,
                   waiterList, held, ahead, last, partial>>

\* s.mu.Unlock() (lines 45, 59, 73, 89, 98, 127, 135, 200); then the function
\* returns or panics, or Acquire goes on to its select (line 61).
Unlock(p) ==
    /\ mu = p
    /\ pc[p] = "unlock"
    /\ mu' = NoOne
    /\ pc' = [pc EXCEPT ![p] = IF p # Admin /\ st[p] = "waiting" THEN "select" ELSE "idle"]
    /\ UNCHANGED <<size, cur, waiters, impossibleWaiters, st, wn, ctxDone, closes,
                   waiterList, held, ahead, last, partial>>

\* The steps of an Acquire in its select (lines 61-63, 76-77): they take no lock.
Select(c) ==
    /\ pc[c] = "select"
    /\ \/ Cancel(c) /\ UNCHANGED pc
       \/ AcquireCtxDone(c) /\ UNCHANGED pc
       \/ AcquireReady(c) /\ pc' = [pc EXCEPT ![c] = "idle"]
    /\ UNCHANGED <<mu, partial>>

\* Current(), line 206: loads s.cur and returns it.
Current ==
    /\ ~halted
    /\ partial = 0 - 1
    /\ last' = Op("Current", "value")
    /\ UNCHANGED <<size, cur, waiters, impossibleWaiters, st, wn, ctxDone, closes,
                   waiterList, held, ahead, mu, pc, partial>>

\* Size(), line 212: loads s.size and returns it.
Size ==
    /\ ~halted
    /\ partial = 0 - 1
    /\ last' = Op("Size", "value")
    /\ UNCHANGED <<size, cur, waiters, impossibleWaiters, st, wn, ctxDone, closes,
                   waiterList, held, ahead, mu, pc, partial>>

\* Waiters(), line 218, first operand: loads s.waiters.Len().
WaitersLen ==
    /\ ~halted
    /\ partial = 0 - 1
    /\ partial' = Len(waiters)
    /\ UNCHANGED <<size, cur, waiters, impossibleWaiters, st, wn, ctxDone, closes,
                   waiterList, held, ahead, last, mu, pc>>

\* Waiters(), line 218, second operand: loads s.impossibleWaiters.Len() and
\* returns the sum, partial + Len(impossibleWaiters).
WaitersReturn ==
    /\ ~halted
    /\ partial >= 0
    /\ partial' = 0 - 1
    /\ last' = Op("Waiters", "value")
    /\ UNCHANGED <<size, cur, waiters, impossibleWaiters, st, wn, ctxDone, closes,
                   waiterList, held, ahead, mu, pc>>

MuNext ==
    \/ \E p \in Procs, f \in PcStates : Call(p, f)
    \/ \E p \in Procs : Lock(p)
    \/ \E p \in Procs : Unlock(p)
    \/ \E c \in Calls : Select(c)

\* sync.Mutex hands the lock to a goroutine that keeps waiting for it
\* (starvation mode), and a goroutine that holds it runs on to its Unlock.
MuSpec ==
    /\ Init
    /\ [][MuNext]_vars
    /\ \A p \in Procs : SF_vars(Lock(p)) /\ WF_vars(Unlock(p))

\* MuSpec together with the callers of Current, Size and Waiters.
DiagNext ==
    \/ MuNext
    \/ Current
    \/ Size
    \/ WaitersLen
    \/ WaitersReturn

DiagSpec == Init /\ [][DiagNext]_vars

\* ---------------------------------------------------------------- claims

TypeOK ==
    /\ size \in ResizeArgs
    /\ cur \in Int
    /\ st \in [Calls -> CallStates]
    /\ \A c \in Calls : closes[c] \in 0..2
    /\ mu \in Procs \cup {NoOne}
    /\ pc \in [Procs -> PcStates]
    /\ partial \in (0 - 1)..MaxCalls

\* The weight of the queued element of channel c.
WeightOf(c) ==
    LET q == waiters \o impossibleWaiters
    IN  q[CHOOSE i \in 1..Len(q) : q[i].ready = c].n

\* The channels closed by this step.
ClosedNow == {c \in Calls : closes'[c] > closes[c]}

RECURSIVE SumOver(_, _)
SumOver(S, f) ==
    IF S = {} THEN 0
    ELSE LET x == CHOOSE y \in S : TRUE IN f[x] + SumOver(S \ {x}, f)

Outstanding(c) ==
    IF st[c] = "holding" THEN held[c]
    ELSE IF st[c] \in {"waiting", "canceling"} /\ closes[c] > 0 THEN wn[c]
    ELSE 0

\* C2: conservation: used is the sum of the weights of the granted and not
\* yet released acquisitions; a canceled Acquire contributes nothing.
C2_Conservation ==
    ~halted => cur = SumOver(Calls, [c \in Calls |-> Outstanding(c)])

\* A call of Acquire is blocked (it has a waiter record and has not returned).
Blocked(c) == st[c] \in {"waiting", "canceling"}

\* C3: every ready channel is closed at most once, and only for a call that
\* has not returned; the record of an Acquire that returned the cancellation
\* error is never granted, and a granted Acquire never returns that error.
C3_ExactlyOnce ==
    [][\A c \in Calls :
         /\ c \in ClosedNow => (Blocked(c) /\ closes[c] = 0 /\ closes'[c] = 1)
         /\ st'[c] = "canceled" => closes'[c] = 0
         /\ (Blocked(c) /\ closes[c] > 0) => st'[c] # "canceled"]_vars

\* The elements of list q that do not belong to channel c.
Others(q, c) == SelectSeq(q, LAMBDA w : w.ready # c)

\* C4: when Acquire returns the cancellation error its record is in neither
\* list, and used, capacity and the other waiters are as before.
C4_CancelRemoves ==
    [][\A c \in Calls :
         (st[c] = "canceling" /\ st'[c] = "canceled") =>
             /\ c \notin Chans(waiters') \cup Chans(impossibleWaiters')
             /\ cur' = cur /\ size' = size
             /\ Others(waiters', c) = Others(waiters, c)
             /\ Others(impossibleWaiters', c) = Others(impossibleWaiters, c)]_vars

\* C5: a canceled Acquire ends in exactly one of two ways: granted (it
\* returns nil, and its channel was closed once: its weight is in used) or
\* canceled (it returns the error and its weight is never added to used);
\* if the grant came before it takes the lock again, it returns nil.
C5_GrantOrCancel ==
    [][\A c \in Calls :
         /\ (st[c] = "canceling" /\ closes[c] > 0) => st'[c] \in {"canceling", "holding"}
         /\ (st[c] = "canceling" /\ st'[c] = "holding") => closes[c] = 1
         /\ (st[c] = "canceling" /\ st'[c] = "canceled") => closes[c] = 0
         /\ st'[c] = "canceled" => closes'[c] = 0]_vars

\* C6: TryAcquire(k) returns true and adds k to used iff the ordered queue is
\* empty and capacity - used >= k; otherwise it returns false; in both cases
\* capacity and the two lists are as before, and a failure leaves used too.
C6_TryAcquire ==
    [][\A c \in Calls, k \in Weights :
         TryAcquire(c, k) =>
             /\ IF Len(waiters) = 0 /\ size - cur >= k
                THEN last'.ret = "true" /\ cur' = cur + k
                ELSE last'.ret = "false" /\ cur' = cur
             /\ size' = size
             /\ waiters' = waiters
             /\ impossibleWaiters' = impossibleWaiters]_vars

\* C6 witness: TryAcquire returned false although a unit of capacity is free,
\* because the ordered queue is not empty.
C6_Witness ==
    /\ last = Op("TryAcquire", "false")
    /\ Len(waiters) > 0
    /\ size - cur >= 1

\* The channels of list q, in order.
Keys(q) == [i \in 1..Len(q) |-> q[i].ready]

\* This step runs a grant cascade: a Release that does not panic, or a Resize
\* to a size >= 0.
CascadeStep ==
    \/ \E c \in Calls, k \in Weights : ReleaseHeld(c, k)
    \/ \E k \in Sizes : Resize(k)

\* The ordered queue the cascade of this step scans: waiters, for Resize after
\* its reclassification for the new size.
CascadeQueue ==
    IF \E c \in Calls, k \in Weights : ReleaseHeld(c, k)
    THEN waiters
    ELSE SelectSeq(waiters, LAMBDA w : w.n <= size')
         \o SelectSeq(impossibleWaiters, LAMBDA w : w.n <= size')

\* C7: head-of-line blocking: a cascade grants a prefix of the ordered queue,
\* every grant fits in capacity - used, the cascade stops at the first waiter
\* that does not fit, and the waiters behind it stay queued in their order.
C7_HeadOfLine ==
    [][CascadeStep =>
         LET Q == CascadeQueue
         IN  \E j \in 0..Len(Q) :
                /\ ClosedNow = {Q[i].ready : i \in 1..j}
                /\ Keys(waiters') = Keys(SubSeq(Q, j + 1, Len(Q)))
                /\ j > 0 => cur' <= size'
                /\ j < Len(Q) => Q[j + 1].n > size' - cur']_vars

\* C7 witness: after a Release the front waiter does not fit and stays, and
\* the waiter behind it, which fits in the free capacity, stays too.
C7_Witness ==
    /\ last = Op("Release", "none")
    /\ Len(waiters) >= 2
    /\ waiters[1].n > size - cur
    /\ waiters[2].n <= size - cur

\* The channels that were in waiters when request c arrived and still are.
AheadOf(c) == IF st[c] = "new" THEN Chans(waiters) ELSE ahead[c]

\* Request c is granted in this step: on the fast path or by a cascade.
GrantedNow(c) ==
    \/ st[c] = "new" /\ st'[c] = "holding"
    \/ c \in ClosedNow

\* C8: no overtaking: when a request is granted, no waiter that was in the
\* ordered queue when the request arrived, and has been there ever since,
\* stays in the ordered queue.
C8_NoOvertaking ==
    [][\A c \in Calls :
         GrantedNow(c) => AheadOf(c) \cap Chans(waiters') = {}]_vars

\* C8 witness: a request that arrived after a waiter was queued is itself
\* queued behind it, although its own weight fits in the free capacity.
C8_Witness ==
    \E c \in Chans(waiters) :
        /\ st[c] = "waiting"
        /\ ahead[c] # {}
        /\ wn[c] <= size - cur

\* A call has returned.
Returned(c) == st[c] \in {"holding", "canceled", "done"}

\* C9: no starvation: when every holder releases and nothing panics, a
\* blocked Acquire whose weight is <= capacity returns, unless the capacity
\* falls below its weight again.
C9_NoStarvation ==
    \A c \in Calls :
        (Blocked(c) /\ wn[c] <= size) ~> (Returned(c) \/ wn[c] > size \/ halted)

\* C10: after Resize(k), every waiter that was pending with weight <= k is in
\* the ordered queue or was granted by this call, and every pending waiter
\* with weight > k is in the unsatisfiable set (and not granted).
C10_Reclassify ==
    [][\A k \in Sizes :
         Resize(k) =>
            \A c \in Queued :
                IF WeightOf(c) <= k
                THEN /\ c \in Chans(waiters') \cup ClosedNow
                     /\ c \notin Chans(impossibleWaiters')
                ELSE /\ c \in Chans(impossibleWaiters')
                     /\ c \notin Chans(waiters') \cup ClosedNow]_vars

\* C10 witness: a Resize has returned, and there is a waiter it (or an earlier
\* Resize) moved into the ordered queue and one moved into the unsatisfiable set.
C10_Witness ==
    /\ last = Op("Resize", "none")
    /\ \E i \in 1..Len(waiters) : waiters[i].elem = 0
    /\ \E i \in 1..Len(impossibleWaiters) : impossibleWaiters[i].elem = 0

\* The weight of the record of channel c, 0 if no record of c is queued.
QueuedWeight == [c \in Calls |-> IF c \in Queued THEN WeightOf(c) ELSE 0]

\* C11: Resize never revokes: Resize(k) never decreases used and takes
\* nothing from a holder or from a waiter already granted; used after the
\* call is used before plus the weights of the waiters its cascade granted,
\* also when k is below the amount in use.
C11_NeverRevokes ==
    [][\A k \in ResizeArgs :
         Resize(k) =>
            /\ cur' = cur + SumOver(ClosedNow, QueuedWeight)
            /\ cur' >= cur
            /\ \A c \in Calls :
                  /\ st[c] = "holding" => (st'[c] = "holding" /\ held'[c] = held[c])
                  /\ closes'[c] >= closes[c]]_vars

\* C11 witness: Resize has set the capacity below the amount in use, moved a
\* queued request into the unsatisfiable set, and a holder still holds more
\* than the new capacity.
C11_Witness ==
    /\ last = Op("Resize", "none")
    /\ \E c \in Calls : st[c] = "holding" /\ held[c] > size
    /\ \E i \in 1..Len(impossibleWaiters) : impossibleWaiters[i].elem = 0

\* List q2 is list q with one record of weight k and channel c at its tail.
PushedBack(q, q2, c, k) ==
    /\ Len(q2) = Len(q) + 1
    /\ SubSeq(q2, 1, Len(q)) = q
    /\ q2[Len(q2)].n = k
    /\ q2[Len(q2)].ready = c

\* C12: Acquire(ctx, k), k > 0: if the ordered queue is empty and
\* capacity - used >= k it adds k to used and returns nil without blocking,
\* whether or not ctx is done already; otherwise it leaves used and pushes
\* exactly one record, into the unsatisfiable set if k > capacity and to the
\* tail of the ordered queue otherwise.
C12_AcquirePaths ==
    [][\A c \in Calls, k \in Weights, d \in BOOLEAN :
         Acquire(c, k, d) =>
            IF Len(waiters) = 0 /\ size - cur >= k
            THEN /\ cur' = cur + k
                 /\ last' = Op("Acquire", "nil")
                 /\ st'[c] = "holding"
                 /\ waiters' = waiters
                 /\ impossibleWaiters' = impossibleWaiters
            ELSE /\ cur' = cur
                 /\ st'[c] = "waiting"
                 /\ IF k > size
                    THEN /\ PushedBack(impossibleWaiters, impossibleWaiters', c, k)
                         /\ waiters' = waiters
                    ELSE /\ PushedBack(waiters, waiters', c, k)
                         /\ impossibleWaiters' = impossibleWaiters]_vars

\* C12 witness: an Acquire whose weight fits in the free capacity has been
\* queued at the tail of the ordered queue, behind a waiter, and blocks.
C12_Witness ==
    /\ last = Op("Acquire", "blocked")
    /\ Len(waiters) >= 2
    /\ LET w == waiters[Len(waiters)]
       IN  /\ w.elem = w.ready
           /\ st[w.ready] = "waiting"
           /\ \A c \in Calls : st[c] # "new" => c <= w.ready
           /\ w.n <= size - cur

\* This step is a call of Release(k).
ReleaseStep(k) == OverRelease(k) \/ \E c \in Calls : ReleaseHeld(c, k)

\* This step grants no waiter and moves none.
NoWaiterTouched ==
    /\ waiters' = waiters
    /\ impossibleWaiters' = impossibleWaiters
    /\ ClosedNow = {}

\* C13: fatal misuse: Release(k) panics exactly when k exceeds used, Resize(k)
\* panics exactly when k < 0; a call that panics grants no waiter and moves
\* none, and no other step panics.
C13_FatalMisuse ==
    [][/\ \A k \in Weights :
            ReleaseStep(k) => /\ halted' <=> k > cur
                              /\ halted' => NoWaiterTouched
       /\ \A k \in ResizeArgs :
            Resize(k) => /\ halted' <=> k < 0
                         /\ halted' => NoWaiterTouched
       /\ halted' =>
            \/ \E j \in Weights : ReleaseStep(j)
            \/ \E j \in ResizeArgs : Resize(j)]_vars

\* C13 witness: a Release of more than was in use has panicked while the
\* front waiter of the ordered queue fits in the capacity, and did not grant it.
C13_Witness ==
    /\ last = Op("Release", "panic")
    /\ cur < 0
    /\ Len(waiters) > 0
    /\ waiters[1].n <= size
    /\ closes[waiters[1].ready] = 0

\* Call c of Acquire waits: it has pushed a waiter, has not been granted and
\* has not returned.
Pending(c) == Blocked(c) /\ closes[c] = 0

\* C14: Waiters() is the number of Acquire calls that wait; no record of an
\* Acquire that returned the cancellation error is counted.
C14_WaitersCount ==
    ~halted => Waiters = Cardinality({c \in Calls : Pending(c)})

\* C15: queue partition: while the program runs, the record of every waiting
\* Acquire is in exactly one of the two lists (and no record is in a list
\* twice), every record of the unsatisfiable set has weight > capacity and
\* every record of the ordered queue has weight <= capacity.
C15_Partition ==
    ~halted =>
        /\ \A c \in Calls : Pending(c) => c \in Queued
        /\ Chans(waiters) \cap Chans(impossibleWaiters) = {}
        /\ Cardinality(Chans(waiters)) = Len(waiters)
        /\ Cardinality(Chans(impossibleWaiters)) = Len(impossibleWaiters)
        /\ \A i \in 1..Len(impossibleWaiters) : impossibleWaiters[i].n > size
        /\ \A i \in 1..Len(waiters) : waiters[i].n <= size

\* C15 witness: both lists hold records, and a waiting Acquire that pushed its
\* record to the ordered queue now has it in the unsatisfiable set.
C15_Witness ==
    /\ ~halted
    /\ Len(waiters) > 0
    /\ \E c \in Chans(impossibleWaiters) :
          Pending(c) /\ waiterList[c] = "waiters"

\* C16: no grantable waiter is left at the head: while the program runs, the
\* front waiter of the ordered queue, if there is one, has a weight greater
\* than capacity - used; also after the front waiter canceled and removed
\* itself while a smaller waiter behind it fits.
C16_NoGrantableHead ==
    ~halted => (Len(waiters) > 0 => waiters[1].n > size - cur)

\* The place of the record of channel c in list q.
Pos(q, c) == CHOOSE i \in 1..Len(q) : q[i].ready = c

\* The record of channel a is before the record of channel b in list q.
Before(q, a, b) == a \in Chans(q) /\ b \in Chans(q) /\ Pos(q, a) < Pos(q, b)

\* C17: Resize keeps order: of two waiters that are in the ordered queue
\* after Resize(k), a is before b exactly if it was before b in the list both
\* came from, or a was in the ordered queue and b was moved in from the
\* unsatisfiable set; likewise in the unsatisfiable set, where the waiters
\* that stay come before the ones moved in from the ordered queue.
C17_ResizeOrder ==
    [][\A k \in Sizes :
         Resize(k) =>
            \A a, b \in Queued :
                /\ ({a, b} \subseteq Chans(waiters') /\ a # b) =>
                      (Before(waiters', a, b) <=>
                          \/ Before(waiters, a, b)
                          \/ Before(impossibleWaiters, a, b)
                          \/ a \in Chans(waiters) /\ b \in Chans(impossibleWaiters))
                /\ ({a, b} \subseteq Chans(impossibleWaiters') /\ a # b) =>
                      (Before(impossibleWaiters', a, b) <=>
                          \/ Before(impossibleWaiters, a, b)
                          \/ Before(waiters, a, b)
                          \/ a \in Chans(impossibleWaiters) /\ b \in Chans(waiters))]_vars

\* C17 witness: after a Resize the ordered queue holds a waiter that stayed
\* in it, followed by a waiter the Resize moved in.
C17_Witness ==
    /\ last = Op("Resize", "none")
    /\ Len(waiters) >= 2
    /\ waiters[1].elem # 0
    /\ waiters[2].elem = 0
    /\ waiterList[waiters[2].ready] = "impossibleWaiters"

\* The waiting Acquire calls whose record is in the unsatisfiable set.
PendingImpossible == {c \in Chans(impossibleWaiters) : Pending(c)}

\* The weights of the records ahead of the record of c in the unsatisfiable
\* set that fit capacity k, added up.
RECURSIVE FitAhead(_, _, _)
FitAhead(q, c, k) ==
    IF q = <<>> \/ Head(q).ready = c THEN 0
    ELSE (IF Head(q).n <= k THEN Head(q).n ELSE 0) + FitAhead(Tail(q), c, k)

\* This step grants the waiting call c: its record leaves the lists, its
\* channel is closed and its weight is added to used.
GrantsWaiter(c) ==
    /\ c \in ClosedNow
    /\ c \notin Chans(waiters') \cup Chans(impossibleWaiters')
    /\ cur' >= cur + QueuedWeight[c]

\* No Release grants a waiter of the unsatisfiable set.
ReleaseSkipsImpossible ==
    \A k \in Weights :
        ReleaseStep(k) => /\ ClosedNow \cap Chans(impossibleWaiters) = {}
                          /\ impossibleWaiters' = impossibleWaiters

\* A waiting Acquire that was granted keeps the grant until it returns nil.
GrantedKeeps ==
    \A c \in Calls :
        (Blocked(c) /\ closes[c] > 0) =>
            \/ st'[c] = "holding" /\ held'[c] = wn[c]
            \/ st'[c] = st[c] /\ closes'[c] = closes[c]
            \/ st[c] = "waiting" /\ st'[c] = "canceling" /\ closes'[c] = closes[c]

\* A waiting Acquire that was granted returns, unless the program panics.
GrantedReturns ==
    \A c \in Calls :
        (Blocked(c) /\ closes[c] > 0) ~> (st[c] = "holding" \/ halted)

\* C18 (as stated): no Release grants a waiter of the unsatisfiable set; a
\* Resize(k) called with k >= its weight, the ordered queue empty and
\* k - used >= its weight moves it and grants it in the same call, and its
\* Acquire then returns nil.
C18_UnsatisfiableGranted ==
    /\ [][/\ ReleaseSkipsImpossible
          /\ \A k \in Sizes :
               Resize(k) =>
                  \A c \in PendingImpossible :
                      (/\ k >= WeightOf(c)
                       /\ Len(waiters) = 0
                       /\ k - cur >= WeightOf(c)) => GrantsWaiter(c)
          /\ GrantedKeeps]_vars
    /\ GrantedReturns

\* C18 (amended): as stated, with k - used >= its weight plus the weights of
\* the waiters ahead of it in the unsatisfiable set that Resize(k) moves with
\* it (those with weight <= k).
C18_UnsatisfiableInTurn ==
    /\ [][/\ ReleaseSkipsImpossible
          /\ \A k \in Sizes :
               Resize(k) =>
                  \A c \in PendingImpossible :
                      (/\ k >= WeightOf(c)
                       /\ Len(waiters) = 0
                       /\ k - cur >= WeightOf(c) + FitAhead(impossibleWaiters, c, k))
                          => GrantsWaiter(c)
          /\ GrantedKeeps]_vars
    /\ GrantedReturns

\* C18 witness: a Resize has granted a waiting Acquire whose record it moved
\* out of the unsatisfiable set, and has moved a second one into the ordered
\* queue, where it waits for lack of free capacity.
C18_Witness ==
    /\ last = Op("Resize", "none")
    /\ \E c \in Calls :
          /\ st[c] = "waiting" /\ closes[c] = 1
          /\ waiterList[c] = "impossibleWaiters"
    /\ \E i \in 1..Len(waiters) :
          /\ waiters[i].elem = 0
          /\ Pending(waiters[i].ready)
          /\ waiterList[waiters[i].ready] = "impossibleWaiters"

\* The goroutine that calls Current, Size and Waiters; it never locks s.mu.
Observer == MaxCalls + 1

\* This step reads or writes size, cur, waiters or impossibleWaiters, in
\* goroutine p: the critical sections, and the loads of Current, Size and Waiters.
FieldAccessBy(p) ==
    IF p = Observer
    THEN Current \/ Size \/ WaitersLen \/ WaitersReturn
    ELSE Lock(p)

\* C19: every read and every write of capacity, used and the two lists, by
\* any function of the interface (Current, Size and Waiters too), is done by
\* a goroutine that holds s.mu.
C19_LockedAccess ==
    [][\A p \in Procs \cup {Observer} : FieldAccessBy(p) => mu' = p]_vars

\* Call c of Acquire is suspended in its select.
Suspended(c) == pc[c] = "select" /\ st[c] = "waiting"

\* Who holds s.mu is in a critical section on its way to Unlock: not
\* suspended in the select, not returned, not gone with a panic.
LockDiscipline ==
    /\ \A c \in Calls : Suspended(c) => mu # c
    /\ \A p \in Procs : pc[p] \in {"idle", "select"} => mu # p
    /\ mu # NoOne => pc[mu] = "unlock"

\* C20: a caller suspended in Acquire does not hold the lock, every way out
\* of Acquire, TryAcquire, Release and Resize (the panics too) unlocks it, and
\* so a call of TryAcquire, Release or Resize runs to completion, however many
\* Acquire callers stay blocked (unless another goroutine's panic ends the program).
C20_NoLockDeadlock ==
    /\ []LockDiscipline
    /\ \A p \in Procs :
          (pc[p] \in {"TryAcquire", "Release", "Resize"}) ~> (pc[p] = "idle" \/ halted)

\* C20 witness: Resize holds the lock and has run its critical section while
\* a caller of Acquire is suspended, still waiting.
C20_Witness ==
    /\ mu = Admin
    /\ last = Op("Resize", "none")
    /\ \E c \in Calls : Suspended(c) /\ closes[c] = 0
====
